---- MODULE Spec2Model ----
(***************************************************************************)
(* Model of raytracer.py: Vec3 algebra, Ray, Sphere.intersects,            *)
(* Sphere.get_normal, color_at, the recursive raytrace and the pixel loop  *)
(* of render_scene.                                                        *)
(*                                                                         *)
(* Python floats are represented in fixed point: the integer k stands for  *)
(* the real k / SCALE.  A Vec3 is a triple <<x, y, z>> of such integers.   *)
(* A product of two reals is (a * b) \div SCALE, math.sqrt is the integer  *)
(* square root.  An operation that can raise returns a record              *)
(* [err |-> BOOLEAN, v |-> value]; err is the ZeroDivisionError that the   *)
(* float division of norm() raises when the length is 0.0.                 *)
(***************************************************************************)
EXTENDS Integers, Sequences, FiniteSets, TLC

VARIABLES
    scene,        \* the Scene object handed to render_scene
    scene0,       \* history: the scene as it was when the render started
    max_bounces,  \* render_scene's max_bounces argument
    pixels,       \* render_scene's pixel buffer, pixels[y][x]
    writes,       \* history: how often pixels[y][x] was assigned by line 161
    px, py,       \* loop variables x, y of render_scene's raytracing loop
    cur,          \* the pixel <<x, y>> whose trace is in flight
    stack,        \* call stack of raytrace, outermost call first
    ret,          \* value returned by the call that returned last
    err,          \* name of the exception that aborted the render, or ""
    pc,           \* "loop", "call", "return", "done", "raised", "probe", "probed"
    probe         \* input and output of one Sphere.intersects call (SpecFn)

vars == <<scene, scene0, max_bounces, pixels, writes, px, py, cur, stack,
          ret, err, pc, probe>>

----------------------------------------------------------------------------
(* Fixed point *)

SCALE == 1000

\* Material.__init__ defaults
AMBIENT == 50
DIFFUSE == 250
SPECULAR == 100
REFLECTIVE == 1000
\* the exponent of the specular term and the offset of the bounce origin
SPECULAR_EXPONENT == 30
EPSILON == 1

(* Bounds of the model *)
MaxBounces == 2
MaxShapes == 2
MaxLights == 1

\* With(e, F) is F(e), with e evaluated once: TLC evaluates the argument of
\* an operator again at each use of it in the operator's body
With(e, F(_)) == CHOOSE r \in {F(x) : x \in {e}} : TRUE

\* the largest r in lo..hi with r * r <= n, by bisection
SqrtIter[n \in Int, lo \in Int, hi \in Int] ==
    IF lo >= hi THEN lo
    ELSE LET mid == (lo + hi + 1) \div 2
         IN IF mid * mid <= n THEN SqrtIter[n, mid, hi]
                              ELSE SqrtIter[n, lo, mid - 1]

\* math.sqrt on a nonnegative argument
sqrt(n) == SqrtIter[n, 0, 46340]

RECURSIVE FixPow(_, _)
FixPow(p, k) == IF k = 0 THEN SCALE ELSE (p * FixPow(p, k - 1)) \div SCALE

Max(a, b) == IF a >= b THEN a ELSE b

----------------------------------------------------------------------------
(* Vec3 *)

VecAdd(a, b) == <<a[1] + b[1], a[2] + b[2], a[3] + b[3]>>

VecSub(a, b) == <<a[1] - b[1], a[2] - b[2], a[3] - b[3]>>

VecMul(a, k) == <<(a[1] * k) \div SCALE, (a[2] * k) \div SCALE, (a[3] * k) \div SCALE>>

mag(a) == sqrt(a[1] * a[1] + a[2] * a[2] + a[3] * a[3])

white == <<SCALE, SCALE, SCALE>>

\* a black that is not quite black: one thousandth in every channel
almost_black == <<1, 1, 1>>

black == <<0, 0, 0>>

Raised == [err |-> TRUE, v |-> black]

Ok(val) == [err |-> FALSE, v |-> val]

\* a norm() that returns the zero vector instead of dividing by a zero length
normNoRaise(a) ==
    With(mag(a), LAMBDA length :
        IF length = 0 THEN Ok(black)
        ELSE Ok(<<(a[1] * SCALE) \div length, (a[2] * SCALE) \div length,
                  (a[3] * SCALE) \div length>>))

norm(a) ==
    With(mag(a), LAMBDA length :
        IF length = 0 THEN Raised
        ELSE Ok(<<(a[1] * SCALE) \div length, (a[2] * SCALE) \div length,
                  (a[3] * SCALE) \div length>>))

dot(a, b) == (a[1] * b[1] + a[2] * b[2] + a[3] * b[3]) \div SCALE

----------------------------------------------------------------------------
(* Ray, Material, Light, Sphere *)

\* Ray.__init__: the value is the ray, or the error of dir.norm()
Ray(origin, dir) ==
    With(norm(dir), LAMBDA d :
        [err |-> d.err, v |-> [origin |-> origin, dir |-> d.v]])

Material(color, reflective) ==
    [color |-> color, ambient |-> AMBIENT, diffuse |-> DIFFUSE,
     specular |-> SPECULAR, reflective |-> reflective]

Light(pos, color) == [pos |-> pos, color |-> color]

Sphere(center, radius, material) ==
    [center |-> center, radius |-> radius, material |-> material]

NoHit == [hit |-> FALSE, dist |-> 0]

\* Sphere.intersects: hit = FALSE is None
intersects(self, ray) ==
    With(dot(VecSub(self.center, ray.origin), ray.dir), LAMBDA t :
        IF t < 0 THEN NoHit
        ELSE With(VecAdd(ray.origin, VecMul(ray.dir, t)), LAMBDA perp_point :
             With(mag(VecSub(perp_point, self.center)), LAMBDA y :
                 IF y <= self.radius
                 THEN LET x == sqrt(self.radius * self.radius - y * y)
                      IN [hit |-> TRUE, dist |-> t - x]
                 ELSE NoHit)))

get_normal(self, hit_pos) == norm(VecSub(hit_pos, self.center))

----------------------------------------------------------------------------
(* Scene: [width, height, cam, shapes, lights]; shapes and lights are the   *)
(* Python lists, as sequences                                               *)

\* Scene.__init__'s camera: (width / 2, height / 2, -width / 2)
Camera(width, height) ==
    <<(width * SCALE) \div 2, (height * SCALE) \div 2, -((width * SCALE) \div 2)>>

----------------------------------------------------------------------------
(* color_at *)

\* the diffuse term without the max(..., 0.0)
diffuse_unclamped(material, hit_normal, to_light) ==
    VecMul(VecMul(material.color, material.diffuse), dot(hit_normal, to_light))

\* lines 203-207
diffuse_term(material, hit_normal, to_light) ==
    VecMul(VecMul(material.color, material.diffuse),
           Max(dot(hit_normal, to_light), 0))

\* lines 210-215, given the halfway vector
specular_term(light, material, halfway, hit_normal) ==
    VecMul(VecMul(light.color, material.specular),
           FixPow(Max(dot(halfway, hit_normal), 0), SPECULAR_EXPONENT))

\* the for loop of color_at from light number i on, color being the
\* accumulated value
RECURSIVE color_at_lights(_, _, _, _, _, _)
color_at_lights(sc, shape_hit, hit_pos, hit_normal, i, color) ==
    IF i > Len(sc.lights) THEN Ok(color)
    ELSE
      With(norm(VecSub(sc.lights[i].pos, hit_pos)), LAMBDA to_light :
      With(norm(VecSub(sc.cam, hit_pos)), LAMBDA to_cam :
        IF to_light.err \/ to_cam.err THEN Raised
        ELSE
          With(VecAdd(color, diffuse_term(shape_hit.material, hit_normal,
                                          to_light.v)), LAMBDA c1 :
          With(norm(VecAdd(to_light.v, to_cam.v)), LAMBDA halfway :
            IF halfway.err THEN Raised
            ELSE
              With(VecAdd(c1, specular_term(sc.lights[i], shape_hit.material,
                                            halfway.v, hit_normal)), LAMBDA c2 :
                color_at_lights(sc, shape_hit, hit_pos, hit_normal, i + 1, c2))))))

color_at(sc, ray, shape_hit, hit_pos, hit_normal) ==
    color_at_lights(sc, shape_hit, hit_pos, hit_normal, 1,
                    VecMul(shape_hit.material.color, shape_hit.material.ambient))

\* a color_at that accumulates into material.color in place
SceneAfterColorAtInPlace(sc, i, color) ==
    [sc EXCEPT !.shapes[i].material.color = color]

\* What color_at leaves of the scene after shading shape number i with the
\* value color: every Vec3 operator returns a new Vec3, also under +=, so
\* material.color and the rest of the scene are untouched
SceneAfterColorAt(sc, i, color) == sc

----------------------------------------------------------------------------
(* raytrace *)

\* a depth test that lets depth == max_bounces shade once more
IsTerminalLate(depth, mb) == depth = mb + 1

\* line 165
IsTerminal(depth, mb) == depth = mb

\* a recursive call that passes its own depth on
callee_depth_same(depth) == depth

\* line 192: depth + 1
callee_depth(depth) == depth + 1

\* a comparison that lets a later shape win a tie
CloserOrEqual(dist, min_dist) == dist <= min_dist

\* line 177
Closer(dist, min_dist) == dist < min_dist

\* the for loop of lines 171-179 from shape number i on; shape_hit = 0 is
\* None (min_dist is then never read)
\* the value is <<shape_hit, min_dist>>
RECURSIVE closest_from(_, _, _, _)
closest_from(sc, ray, i, best) ==
    IF i > Len(sc.shapes) THEN [shape_hit |-> best[1], min_dist |-> best[2]]
    ELSE
      With(intersects(sc.shapes[i], ray), LAMBDA r :
      With(IF r.hit
           THEN IF best[1] = 0
                THEN <<i, r.dist>>
                ELSE IF Closer(r.dist, best[2])
                     THEN <<i, r.dist>>
                     ELSE best
           ELSE best, LAMBDA b :
        closest_from(sc, ray, i + 1, b)))

closest(sc, ray) == closest_from(sc, ray, 1, <<0, 0>>)

\* a bounce weighted by the material's reflective coefficient
AddBounceWeighted(color, bounce, material) ==
    VecAdd(color, VecMul(bounce, material.reflective))

\* line 192: color += raytrace(bounce_ray, ...)
AddBounce(color, bounce, material) == VecAdd(color, bounce)

\* lines 168-191 of one call: the outcome before the recursive call.
\* kind is "miss" (line 181), "raise" (a norm() failed) or "hit"
raytrace_body(sc, ray) ==
    With(closest(sc, ray), LAMBDA c :
      IF c.shape_hit = 0
      THEN [kind |-> "miss", hit |-> 0, dist |-> 0, color |-> black,
            bounce |-> ray]
      ELSE
        LET shape_hit == sc.shapes[c.shape_hit]
            dist == c.min_dist
            raise == [kind |-> "raise", hit |-> c.shape_hit, dist |-> dist,
                      color |-> black, bounce |-> ray]
        IN
        With(VecAdd(ray.origin, VecMul(ray.dir, dist)), LAMBDA hit_pos :
        With(get_normal(shape_hit, hit_pos), LAMBDA hit_normal :
          IF hit_normal.err THEN raise
          ELSE
            With(color_at(sc, ray, shape_hit, hit_pos, hit_normal.v), LAMBDA color :
            With(Ray(VecAdd(hit_pos, VecMul(hit_normal.v, EPSILON)),
                     VecSub(ray.dir,
                            VecMul(hit_normal.v,
                                   2 * dot(ray.dir, hit_normal.v)))),
                 LAMBDA bounce_ray :
              IF color.err \/ bounce_ray.err THEN raise
              ELSE [kind |-> "hit", hit |-> c.shape_hit, dist |-> dist,
                    color |-> color.v, bounce |-> bounce_ray.v])))))

\* raytrace as a function of its arguments: the returned color, or the error
RECURSIVE raytrace(_, _, _, _)
raytrace(ray, sc, mb, depth) ==
    IF IsTerminal(depth, mb) THEN Ok(black)
    ELSE
      With(raytrace_body(sc, ray), LAMBDA b :
        IF b.kind = "miss" THEN Ok(black)
        ELSE IF b.kind = "raise" THEN Raised
        ELSE With(raytrace(b.bounce, sc, mb, callee_depth(depth)), LAMBDA r :
               IF r.err THEN Raised
               ELSE Ok(AddBounce(b.color, r.v, sc.shapes[b.hit].material))))

----------------------------------------------------------------------------
(* Inputs: the scenes, image sizes and bounce limits the render is run on   *)

\* <<width, height>>
Dims == {<<2, 2>>, <<2, 1>>}

\* in front of the camera of a 2 x 2 image, on the axis of pixel (1, 1)
SphereFront == Sphere(<<1000, 1000, 2000>>, 2500,
                      Material(<<800, 200, 200>>, REFLECTIVE))

\* the same place and size, another material
SphereTwin == Sphere(<<1000, 1000, 2000>>, 2500, Material(<<200, 200, 800>>, 0))

\* behind the camera, on the same axis
SphereBack == Sphere(<<1000, 1000, -4000>>, 1000,
                     Material(<<200, 800, 200>>, 500))

SphereCandidates == {SphereFront, SphereTwin, SphereBack}

\* a light off the axis and behind SphereBack, and one on the surface of
\* SphereBack, where the axis meets it
LightSide == Light(<<3000, 2000, -6000>>, <<900, 900, 500>>)

LightOnSurface == Light(<<1000, 1000, -3000>>, white)

LightCandidates == {LightSide, LightOnSurface}

\* the lists of at most n different elements of S
SeqsUpTo(S, n) ==
    UNION {{q \in [1..k -> S] : \A i, j \in 1..k : q[i] = q[j] => i = j} :
              k \in 0..n}

Scene(width, height, shapes, lights) ==
    [width |-> width, height |-> height, cam |-> Camera(width, height),
     shapes |-> shapes, lights |-> lights]

Scenes ==
    {Scene(d[1], d[2], shapes, lights) :
        d \in Dims,
        shapes \in SeqsUpTo(SphereCandidates, MaxShapes),
        lights \in SeqsUpTo(LightCandidates, MaxLights)}

NoProbe == [origin |-> black, target |-> black, sphere |-> SphereFront,
            out |-> NoHit]

\* the rays and spheres Sphere.intersects is applied to on its own
ProbePoints ==
    {<<0, 0, 0>>, <<0, 0, 1000>>, <<0, 0, 5000>>, <<1000, 2000, 2000>>,
     <<0, 0, -3000>>}

ProbeSpheres ==
    {Sphere(c, r, Material(white, REFLECTIVE)) :
        c \in {<<0, 0, 0>>, <<0, 0, 5000>>}, r \in {1000, 2000}}

----------------------------------------------------------------------------
(* render_scene *)

\* lines 146-152
NewPixels(sc) == [y \in 0..(sc.height - 1) |-> [x \in 0..(sc.width - 1) |-> black]]

\* lines 157-160: the primary ray of pixel (x, y)
PrimaryRay(sc, x, y) == Ray(sc.cam, VecSub(<<x * SCALE, y * SCALE, 0>>, sc.cam))

Frame(ray, depth) ==
    [ray |-> ray, depth |-> depth, kind |-> "pending", hit |-> 0, dist |-> 0,
     color |-> black]

\* an assignment with the indexes exchanged
StoreCellSwapped(buf, x, y, val) ==
    IF x \in DOMAIN buf /\ y \in DOMAIN buf[x]
    THEN [buf EXCEPT ![x][y] = val] ELSE buf

\* line 161: pixels[y][x] = ...
StoreCell(buf, x, y, val) == [buf EXCEPT ![y][x] = val]

Init ==
    /\ scene \in Scenes
    /\ scene0 = scene
    /\ max_bounces \in 0..MaxBounces
    /\ pixels = NewPixels(scene)
    /\ writes = [y \in 0..(scene.height - 1) |-> [x \in 0..(scene.width - 1) |-> 0]]
    /\ px = 0
    /\ py = 0
    /\ cur = <<0, 0>>
    /\ stack = <<>>
    /\ ret = black
    /\ err = ""
    /\ pc = "loop"
    /\ probe = NoProbe

\* lines 157-161 up to the call of raytrace, for pixel (x, y)
StartPixel(x, y) ==
    \E ray \in {PrimaryRay(scene, x, y)} :
       /\ cur' = <<x, y>>
       /\ IF ray.err
          THEN /\ pc' = "raised"
               /\ err' = "ZeroDivisionError"
               /\ stack' = stack
          ELSE /\ pc' = "call"
               /\ err' = err
               /\ stack' = <<Frame(ray.v, 0)>>
       /\ UNCHANGED <<scene, scene0, max_bounces, pixels, writes, ret, probe>>

\* the loops of lines 155-156 enter their body
RenderPixel ==
    /\ pc = "loop"
    /\ py < scene.height
    /\ StartPixel(px, py)
    /\ UNCHANGED <<px, py>>

\* line 161's assignment, and the loops step
RenderStore ==
    /\ pc = "return"
    /\ Len(stack) = 1
    /\ pixels' = StoreCell(pixels, cur[1], cur[2], ret)
    /\ writes' = [writes EXCEPT ![cur[2]][cur[1]] = @ + 1]
    /\ IF px + 1 < scene.width
       THEN px' = px + 1 /\ py' = py
       ELSE px' = 0 /\ py' = py + 1
    /\ stack' = <<>>
    /\ pc' = "loop"
    /\ UNCHANGED <<scene, scene0, max_bounces, cur, ret, err, probe>>

\* line 162
RenderDone ==
    /\ pc = "loop"
    /\ py = scene.height
    /\ pc' = "done"
    /\ UNCHANGED <<scene, scene0, max_bounces, pixels, writes, px, py, cur,
                   stack, ret, err, probe>>

----------------------------------------------------------------------------
(* raytrace, one call at a time.  The last frame of stack is the running    *)
(* call: pc = "call" when it is entered, pc = "return" when it returns ret. *)

Top == stack[Len(stack)]

SetTop(f) == [stack EXCEPT ![Len(stack)] = f]

\* lines 165-166
RaytraceBase ==
    /\ pc = "call"
    /\ IsTerminal(Top.depth, max_bounces)
    /\ stack' = SetTop([Top EXCEPT !.kind = "base"])
    /\ ret' = black
    /\ pc' = "return"
    /\ UNCHANGED <<scene, scene0, max_bounces, pixels, writes, px, py, cur,
                   err, probe>>

\* lines 168-181: no shape is intersected
RaytraceMiss ==
    /\ pc = "call"
    /\ ~IsTerminal(Top.depth, max_bounces)
    /\ raytrace_body(scene, Top.ray).kind = "miss"
    /\ stack' = SetTop([Top EXCEPT !.kind = "miss"])
    /\ ret' = black
    /\ pc' = "return"
    /\ UNCHANGED <<scene, scene0, max_bounces, pixels, writes, px, py, cur,
                   err, probe>>

\* lines 168-192 up to the recursive call, which is entered
RaytraceHit ==
    /\ pc = "call"
    /\ ~IsTerminal(Top.depth, max_bounces)
    /\ \E b \in {raytrace_body(scene, Top.ray)} :
          /\ b.kind = "hit"
          /\ stack' = Append(SetTop([Top EXCEPT !.kind = "hit", !.hit = b.hit,
                                                !.dist = b.dist,
                                                !.color = b.color]),
                             Frame(b.bounce, callee_depth(Top.depth)))
          /\ scene' = SceneAfterColorAt(scene, b.hit, b.color)
    /\ pc' = "call"
    /\ UNCHANGED <<scene0, max_bounces, pixels, writes, px, py, cur, ret, err,
                   probe>>

\* lines 184-191: a norm() divides by a zero length; the exception leaves
\* raytrace and render_scene, stack keeps the calls it passed through
RaytraceRaise ==
    /\ pc = "call"
    /\ ~IsTerminal(Top.depth, max_bounces)
    /\ \E b \in {raytrace_body(scene, Top.ray)} :
          /\ b.kind = "raise"
          /\ stack' = SetTop([Top EXCEPT !.kind = "raise", !.hit = b.hit,
                                         !.dist = b.dist])
    /\ err' = "ZeroDivisionError"
    /\ pc' = "raised"
    /\ UNCHANGED <<scene, scene0, max_bounces, pixels, writes, px, py, cur,
                   ret, probe>>

\* lines 192-193: the callee returned ret; the caller adds it and returns
RaytraceReturn ==
    /\ pc = "return"
    /\ Len(stack) >= 2
    /\ LET caller == stack[Len(stack) - 1]
       IN ret' = AddBounce(caller.color, ret, scene.shapes[caller.hit].material)
    /\ stack' = SubSeq(stack, 1, Len(stack) - 1)
    /\ pc' = "return"
    /\ UNCHANGED <<scene, scene0, max_bounces, pixels, writes, px, py, cur,
                   err, probe>>

Raytrace ==
    \/ RaytraceBase
    \/ RaytraceMiss
    \/ RaytraceHit
    \/ RaytraceRaise
    \/ RaytraceReturn

Next ==
    \/ RenderPixel
    \/ RenderStore
    \/ RenderDone
    \/ Raytrace

Spec == Init /\ [][Next]_vars

\* the interpreter runs the program on without pause
FairSpec == Spec /\ WF_vars(Next)

----------------------------------------------------------------------------
(* The pixel loop with its iterations taken in any order: what section 5 of *)
(* the specification allows an implementation to do                         *)

RenderPixelAny ==
    /\ pc = "loop"
    /\ \E y \in DOMAIN writes : \E x \in DOMAIN writes[y] :
          /\ writes[y][x] = 0
          /\ StartPixel(x, y)
    /\ UNCHANGED <<px, py>>

RenderStoreAny ==
    /\ pc = "return"
    /\ Len(stack) = 1
    /\ pixels' = StoreCell(pixels, cur[1], cur[2], ret)
    /\ writes' = [writes EXCEPT ![cur[2]][cur[1]] = @ + 1]
    /\ stack' = <<>>
    /\ pc' = "loop"
    /\ UNCHANGED <<scene, scene0, max_bounces, px, py, cur, ret, err, probe>>

RenderDoneAny ==
    /\ pc = "loop"
    /\ \A y \in DOMAIN writes : \A x \in DOMAIN writes[y] : writes[y][x] >= 1
    /\ pc' = "done"
    /\ UNCHANGED <<scene, scene0, max_bounces, pixels, writes, px, py, cur,
                   stack, ret, err, probe>>

NextAnyOrder ==
    \/ RenderPixelAny
    \/ RenderStoreAny
    \/ RenderDoneAny
    \/ Raytrace

SpecAnyOrder == Init /\ [][NextAnyOrder]_vars

----------------------------------------------------------------------------
(* Sphere.intersects applied to one ray and one sphere                      *)

InitFn ==
    /\ scene = Scene(2, 2, <<>>, <<>>)
    /\ scene0 = scene
    /\ max_bounces = 0
    /\ pixels = NewPixels(scene)
    /\ writes = [y \in 0..1 |-> [x \in 0..1 |-> 0]]
    /\ px = 0
    /\ py = 0
    /\ cur = <<0, 0>>
    /\ stack = <<>>
    /\ ret = black
    /\ err = ""
    /\ pc = "probe"
    /\ probe \in [origin : ProbePoints, target : ProbePoints,
                  sphere : ProbeSpheres, out : {NoHit}]

\* Ray(origin, target - origin), then sphere.intersects(ray)
ProbeIntersects ==
    /\ pc = "probe"
    /\ \E ray \in {Ray(probe.origin, VecSub(probe.target, probe.origin))} :
          /\ ~ray.err
          /\ probe' = [probe EXCEPT !.out = intersects(probe.sphere, ray.v)]
    /\ pc' = "probed"
    /\ UNCHANGED <<scene, scene0, max_bounces, pixels, writes, px, py, cur,
                   stack, ret, err>>

\* the ray's direction has length zero: Ray.__init__ raises
ProbeRaise ==
    /\ pc = "probe"
    /\ Ray(probe.origin, VecSub(probe.target, probe.origin)).err
    /\ err' = "ZeroDivisionError"
    /\ pc' = "raised"
    /\ UNCHANGED <<scene, scene0, max_bounces, pixels, writes, px, py, cur,
                   stack, ret, probe>>

NextFn == ProbeIntersects \/ ProbeRaise

SpecFn == InitFn /\ [][NextFn]_vars

----------------------------------------------------------------------------
(* Properties *)

Cells == {<<x, y>> : x \in 0..(scene.width - 1), y \in 0..(scene.height - 1)}

\* the frames of the calls that computed a color with color_at
ShadedHits == Cardinality({i \in 1..Len(stack) : stack[i].kind = "hit"})

\* the running call is one that made no recursive call, and has ended
RecursionStopped ==
    /\ pc \in {"return", "raised"}
    /\ Len(stack) >= 1
    /\ Top.kind # "hit"

NoShapeIntersected(sc, ray) ==
    \A j \in 1..Len(sc.shapes) : ~intersects(sc.shapes[j], ray).hit

DepthInv ==
    \A i \in 1..Len(stack) :
        /\ stack[i].depth = i - 1
        /\ stack[i].depth <= max_bounces

StopsAtBaseOrMiss ==
    \/ /\ Top.kind = "base"
       /\ Top.depth = max_bounces
       /\ pc = "return"
       /\ ret = <<0, 0, 0>>
    \/ /\ Top.kind = "miss"
       /\ NoShapeIntersected(scene, Top.ray)
       /\ pc = "return"
       /\ ret = <<0, 0, 0>>

Terminated == pc \in {"done", "raised"}

\* C1 as stated: every call of raytrace has depth one more than its caller
\* and at most max_bounces, the recursion stops only at a call with
\* depth = max_bounces or one that intersects no shape, which returns black,
\* and the run terminates.
C1_StopsOnlyAtBaseOrMiss ==
    /\ DepthInv
    /\ RecursionStopped => StopsAtBaseOrMiss

C1_Inv ==
    /\ DepthInv
    /\ RecursionStopped =>
          \/ StopsAtBaseOrMiss
          \/ /\ Top.kind = "raise"
             /\ pc = "raised"
             /\ err = "ZeroDivisionError"
             /\ ~NoShapeIntersected(scene, Top.ray)
    /\ (max_bounces = 0 /\ pc = "return") => ret = <<0, 0, 0>>

\* C1, amended: every call of raytrace has depth one more than its caller
\* and at most max_bounces; the recursion stops at a call with
\* depth = max_bounces or at one that intersects no shape, both returning
\* black, or at a call in which the normalisation of a zero-length vector
\* raises ZeroDivisionError; with max_bounces = 0 every result is black; and
\* every run ends, with the buffer returned or with that exception.
C1_Terminates == [](C1_Inv) /\ <>Terminated

\* C1's case: the recursion stopped at depth = max_bounces below two hits
C1_Witness ==
    /\ pc = "return"
    /\ Len(stack) = 3
    /\ Top.kind = "base"
    /\ max_bounces = 2
    /\ stack[1].kind = "hit"
    /\ stack[2].kind = "hit"

\* C2 as stated: for a sphere of radius > 0 and any ray, intersects returns
\* None or a distance >= 0.
C2_NeverNegative ==
    (pc = "probed" /\ probe.sphere.radius > 0 /\ probe.out.hit)
        => probe.out.dist >= 0

ChainCutAtLimit ==
    /\ pc = "return"
    /\ Len(stack) >= 1
    /\ Top.kind = "base"
    /\ ~NoShapeIntersected(scene, stack[1].ray)

\* C4 as stated: for a ray whose every reflected ray hits a surface,
\* raytrace with max_bounces = n shades n + 1 hits before it returns black.
C4_ShadesBouncesPlusOne == ChainCutAtLimit => ShadedHits = max_bounces + 1

\* C4, amended: max_bounces caps the number of shaded hits, the primary hit
\* included: for a ray whose every reflected ray hits a surface, raytrace
\* with max_bounces = n shades n hits (the primary hit and n - 1 bounces,
\* none at all for n = 0) before it returns black, and never more than n.
C4_ShadesMaxBounces ==
    /\ ShadedHits <= max_bounces
    /\ ChainCutAtLimit => ShadedHits = max_bounces

C4_Witness == ChainCutAtLimit /\ max_bounces = 2 /\ ShadedHits = 2

NonNegVec(v) == v[1] >= 0 /\ v[2] >= 0 /\ v[3] >= 0

NonNegScene(sc) ==
    /\ \A i \in 1..Len(sc.shapes) :
          /\ NonNegVec(sc.shapes[i].material.color)
          /\ sc.shapes[i].material.ambient >= 0
          /\ sc.shapes[i].material.diffuse >= 0
          /\ sc.shapes[i].material.specular >= 0
    /\ \A i \in 1..Len(sc.lights) : NonNegVec(sc.lights[i].color)

VecLeq(a, b) == a[1] <= b[1] /\ a[2] <= b[2] /\ a[3] <= b[3]

\* the outermost call of the trace in flight has returned ret
PixelReturned == pc = "return" /\ Len(stack) = 1

\* C5: in a scene of nonnegative colors and coefficients, the color that
\* raytrace returns for a ray with max_bounces = n is, channel by channel,
\* at least the color it returns for the same ray with any m <= n (which
\* it then does return).
C5_MonotoneInMaxBounces ==
    (PixelReturned /\ NonNegScene(scene)) =>
        \A m \in 0..max_bounces :
            LET r == raytrace(stack[1].ray, scene, m, 0)
            IN ~r.err /\ VecLeq(r.v, ret)

\* C5's case: the second bounce limit adds to a channel
C5_Witness ==
    /\ PixelReturned
    /\ max_bounces = 2
    /\ NonNegScene(scene)
    /\ raytrace(stack[1].ray, scene, 1, 0).v[2] < ret[2]
    /\ raytrace(stack[1].ray, scene, 1, 0).v # <<0, 0, 0>>

\* the hit position of the call on ray is the center of the shape hit, the
\* position of a light, or the camera
DegenerateCall(sc, ray) ==
    LET c == closest(sc, ray)
        hit_pos == VecAdd(ray.origin, VecMul(ray.dir, c.min_dist))
    IN /\ c.shape_hit # 0
       /\ \/ hit_pos = sc.shapes[c.shape_hit].center
          \/ \E i \in 1..Len(sc.lights) :
                hit_pos = sc.lights[i].pos \/ hit_pos = sc.cam

C7_EmptySceneBlack ==
    scene.shapes = <<>> =>
        /\ pc # "raised"
        /\ pc = "return" => ret = <<0, 0, 0>>
        /\ DOMAIN pixels = 0..(scene.height - 1)
        /\ \A c \in Cells :
              /\ DOMAIN pixels[c[2]] = 0..(scene.width - 1)
              /\ pixels[c[2]][c[1]] = <<0, 0, 0>>
              /\ pc = "done" => writes[c[2]][c[1]] = 1

C7_Witness ==
    /\ pc = "done"
    /\ scene.shapes = <<>>
    /\ scene.lights # <<>>
    /\ max_bounces = 2
    /\ scene.height = 2

\* the color of pixel (x, y) as a function of the scene and max_bounces
PixelColor(x, y) == raytrace(PrimaryRay(scene, x, y).v, scene, max_bounces, 0).v

WithReflective(sc, r) ==
    [sc EXCEPT !.shapes =
        [i \in DOMAIN sc.shapes |-> [sc.shapes[i] EXCEPT !.material.reflective = r]]]

\* C10: the color a call of raytrace returns, at any depth, is the color
\* it returns in the scene with every reflective coefficient replaced by
\* any other value.
C10_ReflectiveInert ==
    (pc = "return" /\ Len(stack) >= 1) =>
        \A r \in {0, 500, 1000} :
            raytrace(Top.ray, WithReflective(scene, r), max_bounces, Top.depth)
                = Ok(ret)

\* C10's case: a shape of reflective 0 returns its own color plus the whole
\* color of the bounce
C10_Witness ==
    /\ PixelReturned
    /\ stack[1].kind = "hit"
    /\ scene.shapes[stack[1].hit].material.reflective = 0
    /\ ret # stack[1].color
    /\ ret # <<0, 0, 0>>

====
